---- MODULE Spec2Model ----
(***************************************************************************)
(* A model of the enrollment scripts of this repository:                   *)
(*   analyze_enrollment.py  load -> clean -> sort/save -> totals ->        *)
(*                          analyse -> plot          (SpecEnroll)          *)
(*   analysis.py            expected / gap / ratio   (SpecAnalysis)        *)
(*   dashboard.py           aggregations over the generated sample data    *)
(*   generate_data.py       of generate_data.py      (SpecDash)            *)
(*   app.py                 moving averages          (SpecRoll)            *)
(* Further specifications start the same actions from other inputs:        *)
(*   SpecMain, SpecTop      analyze_enrollment.py on dated rows and on     *)
(*                          more than ten states                           *)
(*   SpecRank, SpecFilter   dashboard.py's ranking and sidebar filters     *)
(*   SpecApp, SpecForecast  app.py's loading and its forecast              *)
(*   SpecScripts            all four scripts on well-formed rows, with the *)
(*                          input file possibly absent                     *)
(*   SpecDouble             analysis.py's metrics in float64 arithmetic    *)
(* A DataFrame is a sequence of rows, a row a record from column name to   *)
(* cell.  Cells that can hold a number or a marker are records [k, v]:     *)
(* k = "num" (v the number), "nan" (missing, NaN), "str" (text that is no  *)
(* number), "inf" (v = 1 or -1, the float infinities).                     *)
(***************************************************************************)
EXTENDS Integers, Naturals, Sequences, FiniteSets, TLC

VARIABLES
    csv,        \* analyze_enrollment.py: the rows read from the csv files
    df,         \* analyze_enrollment.py: main's df
    pc,         \* analyze_enrollment.py: the stage main has completed
    report,     \* analyze_enrollment.py: what analyse and plot computed
    printed,    \* analyze_enrollment.py: the messages main printed, in order
    acsv,       \* analysis.py: the rows of aadhaar_0_5_enrolment.csv
    adf,        \* analysis.py: the script's df
    apc,        \* analysis.py: how far the script has run
    acharts,    \* analysis.py: the per-state means behind charts 2 and 3
    sample,     \* generate_data.py: the rows written to sample_data.csv
    fdf,        \* dashboard.py: the dataset main hands to the chart functions
    dpc,        \* dashboard.py: "start", "generated", "loaded", "filtered", "stopped"
    last,       \* dashboard.py: the latest result of each aggregation
    runs,       \* dashboard.py: the aggregations run so far, and whether one ran again
    sidebar,    \* dashboard.py: the values of the sidebar's three filter widgets
    ties,       \* the order in which the build's unstable sort leaves ties
    daily,      \* app.py: the daily totals, one cell a calendar day, NaN where
                \* asfreq('D') found no record for the day
    ts,         \* app.py: the daily series after its gaps are filled, <<>> before
    window,     \* app.py: the window of the moving average
    ma,         \* app.py: the moving average computed from ts, <<>> before
    forecast,   \* app.py: what plot_forecasting showed for the daily series
    present,    \* the input files present in the working directory
    appfile,    \* app.py: the columns of cleaned_aadhaar_analysis.csv
    appdf,      \* app.py: where load_data's dataset came from, and its columns
    apppc,      \* app.py: how far the script has run
    appmsgs     \* app.py: the warnings and errors shown, in order

enrollVars == <<csv, df, pc, report, printed>>
analysisVars == <<acsv, adf, apc, acharts>>
dashVars == <<sample, fdf, dpc, last, runs, ties, sidebar>>

rollVars == <<daily, ts, window, ma, forecast>>

appVars == <<appfile, appdf, apppc, appmsgs>>

vars == <<enrollVars, analysisVars, dashVars, rollVars, appVars, present>>

notEnrollVars == <<analysisVars, dashVars, rollVars, appVars, present>>
notAnalysisVars == <<enrollVars, dashVars, rollVars, appVars, present>>
notDashVars == <<enrollVars, analysisVars, rollVars, appVars, present>>
notRollVars == <<enrollVars, analysisVars, dashVars, appVars, present>>
notAppVars == <<enrollVars, analysisVars, dashVars, rollVars, present>>

----------------------------------------------------------------------------
(* Cells *)

Num(n) == [k |-> "num", v |-> n]
NaNCell == [k |-> "nan", v |-> 0]
StrCell == [k |-> "str", v |-> 0]
NaN == "NaN"
None == "None"

IsNum(c) == c.k = "num"

\* A timestamp, and the text cells a date column can hold: "dmy" is text in
\* the format '%d-%m-%Y', "ymd" is text in another format (2023/01/05).
Timestamp(y, m, d) == [k |-> "ts", y |-> y, m |-> m, d |-> d]
NaT == [k |-> "nat", y |-> 0, m |-> 0, d |-> 0]
DateText(fmt, y, m, d) == [k |-> fmt, y |-> y, m |-> m, d |-> d]
NaNDate == [k |-> "nan", y |-> 0, m |-> 0, d |-> 0]

----------------------------------------------------------------------------
(* Bounds and input domains *)

MaxRows == 2
MaxCount == 1

StateNames == <<"A", "B">>
States == {StateNames[i] : i \in 1..Len(StateNames)}

RawDates == {DateText("dmy", 2023, 1, 5), DateText("dmy", 2023, 2, 7),
             DateText("ymd", 2023, 1, 5), NaNDate}
RawCounts == {StrCell} \cup {Num(n) : n \in 1..MaxCount}

\* A csv row. district and pincode are present together or missing together;
\* the first age column may also hold a negative number.
NegativeCount == Num(-1)

\* A state cell that differs from "A" by trailing whitespace only.
PaddedState == "A "

RawRows ==
    {[date |-> d, state |-> s, district |-> l, pincode |-> l,
      age_0_5 |-> a, age_5_17 |-> b, age_18_greater |-> c] :
        d \in RawDates, s \in States \cup {PaddedState, NaN}, l \in {"L", NaN},
        a \in RawCounts \cup {NegativeCount}, b \in RawCounts, c \in RawCounts}

SeqsUpTo(S, n) == UNION {[1..k -> S] : k \in 1..n}

\* The input files of the scripts: what glob('api_data_aadhar_enrolment_*.csv')
\* matches, analysis.py's csv and the csv app.py reads.
EnrolmentFiles == "api_data_aadhar_enrolment_*.csv"
AnalysisFile == "aadhaar_0_5_enrolment.csv"
AppFile == "cleaned_aadhaar_analysis.csv"

----------------------------------------------------------------------------
(* Helpers: sums, sequences *)

RECURSIVE SumSeq(_)
SumSeq(s) == IF s = <<>> THEN 0 ELSE Head(s) + SumSeq(Tail(s))

Prefix(s, n) == IF n >= Len(s) THEN s ELSE SubSeq(s, 1, n)

Perms(n) == {p \in [1..n -> 1..n] : \A i, j \in 1..n : p[i] = p[j] => i = j}

WithCol(r, name, val) ==
    [f \in (DOMAIN r) \cup {name} |-> IF f = name THEN val ELSE r[f]]

\* The elements of the finite set S as a sequence in ascending rank[x].
RECURSIVE SortSet(_, _)
SortSet(S, rank) ==
    IF S = {} THEN <<>>
    ELSE LET m == CHOOSE x \in S : \A y \in S : rank[x] <= rank[y]
         IN <<m>> \o SortSet(S \ {m}, rank)

RECURSIVE SumOver(_, _)
SumOver(S, f) ==
    IF S = {} THEN 0
    ELSE LET x == CHOOSE y \in S : TRUE IN f[x] + SumOver(S \ {x}, f)

Column(rows, name) == [i \in 1..Len(rows) |-> rows[i][name]]

----------------------------------------------------------------------------
(* pandas: the operations the scripts use *)

\* A numeric cell as a summand: sum() skips NaN (skipna=True).
Val(c) == IF IsNum(c) THEN c.v ELSE 0

\* pd.to_numeric(errors='coerce') on one cell: text that is no number -> NaN.
to_numeric_coerce(c) == IF IsNum(c) THEN c ELSE NaNCell

\* pd.to_datetime(format='%d-%m-%Y') on one cell; "raise" when the text does
\* not match the format (errors='raise' is the default).
to_datetime_dmy(c) ==
    IF c.k = "dmy" THEN Timestamp(c.y, c.m, c.d)
    ELSE IF c.k \in {"nan", "nat"} THEN NaT
    ELSE [k |-> "raise", y |-> 0, m |-> 0, d |-> 0]

\* Series.dt.strftime('%d-%m-%Y') on one cell: NaT -> NaN.
strftime_dmy(t) == IF t.k = "ts" THEN DateText("dmy", t.y, t.m, t.d) ELSE NaNDate

DateKey(t) == t.y * 10000 + t.m * 100 + t.d

\* df[age_columns].sum(axis=1) for one row.
age_columns == <<"age_0_5", "age_5_17", "age_18_greater">>
RowTotal(r) == SumSeq([i \in 1..Len(age_columns) |-> Val(r[age_columns[i]])])

\* df[col].sum()
ColumnSum(rows, col) == SumSeq([i \in 1..Len(rows) |-> Val(rows[i][col])])

\* df.groupby(key)[...].sum(): one entry per distinct key, keys ascending,
\* rows whose key is missing left out (dropna=True is the default).
\* keys and vals are parallel sequences; rank orders the keys.
GroupBySum(keys, vals, missing, rank) ==
    LET ks == {keys[i] : i \in DOMAIN keys} \ missing
        order == SortSet(ks, rank)
    IN [i \in 1..Len(order) |->
          [key |-> order[i],
           val |-> SumOver({j \in DOMAIN keys : keys[j] = order[i]}, vals)]]

\* groupby orders its keys: the state cells in ascending string order
StateKeys == <<"A", "A ", "B", "C", "D", "E", "F", "G", "H", "I", "J", "K">>
StateRank ==
    [s \in {StateKeys[i] : i \in 1..Len(StateKeys)} |->
        CHOOSE i \in 1..Len(StateKeys) : StateKeys[i] = s]
DateRank(S) == [t \in S |-> DateKey(t)]

RemoveAt(s, i) == SubSeq(s, 1, i - 1) \o SubSeq(s, i + 1, Len(s))

\* Series.sort_values(ascending=False): the default sort (quicksort) is not
\* stable, so every descending arrangement is a possible result.
\* Built front to back: any of the largest entries left comes next.
RECURSIVE SortedDescending(_)
SortedDescending(s) ==
    IF s = <<>> THEN {<<>>}
    ELSE UNION {{<<s[i]>> \o t : t \in SortedDescending(RemoveAt(s, i))} :
                   i \in {j \in 1..Len(s) : \A k \in 1..Len(s) : s[k].val <= s[j].val}}

RECURSIVE SortedAscending(_)
SortedAscending(s) ==
    IF s = <<>> THEN {<<>>}
    ELSE UNION {{<<s[i]>> \o t : t \in SortedAscending(RemoveAt(s, i))} :
                   i \in {j \in 1..Len(s) : \A k \in 1..Len(s) : s[k].val >= s[j].val}}

\* DataFrame.sort_values('date'): ascending, NaT last (na_position='last').
DateSortKey(t) == IF t.k = "ts" THEN DateKey(t) ELSE 99999999
RECURSIVE SortedByDate(_)
SortedByDate(rows) ==
    IF rows = <<>> THEN {<<>>}
    ELSE UNION {{<<rows[i]>> \o t : t \in SortedByDate(RemoveAt(rows, i))} :
                   i \in {j \in 1..Len(rows) : \A k \in 1..Len(rows) :
                              DateSortKey(rows[k].date) >= DateSortKey(rows[j].date)}}

\* Series.nlargest(n) (keep='first'): the n largest, descending, ties in the
\* order of the series.
RECURSIVE nlargest(_, _)
nlargest(s, n) ==
    IF n = 0 \/ s = <<>> THEN <<>>
    ELSE LET i == CHOOSE j \in 1..Len(s) :
                      /\ \A k \in 1..Len(s) : s[k].val <= s[j].val
                      /\ \A k \in 1..(j - 1) : s[k].val < s[j].val
         IN <<s[i]>> \o nlargest(RemoveAt(s, i), n - 1)

----------------------------------------------------------------------------
(* analyze_enrollment.py *)

TopStates == 10

NoReport ==
    [age_totals |-> <<>>, state_totals |-> <<>>, daily_enrollments |-> <<>>,
     state_enrollments |-> <<>>, monthly |-> <<>>]

\* dropna(subset=[state, district, pincode] + numeric_cols, how='all'):
\* a row is dropped when every one of the six cells is missing.
AllMissing(r) ==
    /\ r.state = NaN /\ r.district = NaN /\ r.pincode = NaN
    /\ \A i \in 1..Len(age_columns) : ~IsNum(r[age_columns[i]])

Retained(r) == ~AllMissing(r)

\* clean_data, after the date column parsed: coerce the counts, drop rows.
CoerceRow(r) ==
    [r EXCEPT !.date = to_datetime_dmy(r.date),
              !.age_0_5 = to_numeric_coerce(r.age_0_5),
              !.age_5_17 = to_numeric_coerce(r.age_5_17),
              !.age_18_greater = to_numeric_coerce(r.age_18_greater)]

clean_data_raises(rows) ==
    \E i \in 1..Len(rows) : to_datetime_dmy(rows[i].date).k = "raise"

clean_data(rows) ==
    SelectSeq([i \in 1..Len(rows) |-> CoerceRow(rows[i])], Retained)

\* The round trip as if the text were read back month first ('%m-%d-%Y').
RoundTripDateMonthFirst(r) ==
    [r EXCEPT !.date = IF r.date.k = "ts" THEN Timestamp(r.date.y, r.date.d, r.date.m)
                       ELSE NaT]

\* sort_and_save_data, after the sort: strftime, to_csv, to_datetime again.
RoundTripDate(r) == [r EXCEPT !.date = to_datetime_dmy(strftime_dmy(r.date))]

AddTotals(rows) ==
    [i \in 1..Len(rows) |-> WithCol(rows[i], "total_enrollments", Num(RowTotal(rows[i])))]

AgeTotals(rows) == [i \in 1..Len(age_columns) |-> ColumnSum(rows, age_columns[i])]

StateTotals(rows) ==
    GroupBySum(Column(rows, "state"),
               [i \in 1..Len(rows) |-> Val(rows[i].total_enrollments)],
               {NaN}, StateRank)

DailyEnrollments(rows) ==
    GroupBySum(Column(rows, "date"),
               [i \in 1..Len(rows) |-> Val(rows[i].total_enrollments)],
               {NaT}, DateRank({rows[i].date : i \in 1..Len(rows)}))

\* df['date'].dt.to_period('M').dt.to_timestamp(): the first of the month.
MonthYear(t) == IF t.k = "ts" THEN Timestamp(t.y, t.m, 1) ELSE NaT

\* df.groupby('month_year')[age_columns].sum(): one row of three sums a month.
Monthly(rows) ==
    LET g(c) == GroupBySum(Column(rows, "month_year"),
                           [i \in 1..Len(rows) |-> Val(rows[i][c])],
                           {NaT}, DateRank({rows[i].month_year : i \in 1..Len(rows)}))
        first == g(age_columns[1])
    IN [i \in 1..Len(first) |->
          [key |-> first[i].key,
           val |-> [c \in 1..Len(age_columns) |-> g(age_columns[c])[i].val]]]

\* load_data as if pd.concat([]) returned an empty frame.
ae_load_data_empty_frame ==
    /\ pc = "start"
    /\ df' = csv
    /\ pc' = "loaded"
    /\ printed' = printed \o <<"loaded">>
    /\ UNCHANGED <<csv, report, notEnrollVars>>

\* load_data: with no file matching the pattern pd.concat([]) raises
\* ValueError, which main's except clause reports with its banner.
ae_load_data ==
    /\ pc = "start"
    /\ IF EnrolmentFiles \in present
       THEN /\ df' = csv
            /\ pc' = "loaded"
            /\ printed' = printed \o <<"loaded">>
       ELSE /\ pc' = "error"
            /\ printed' = printed \o <<"banner">>
            /\ UNCHANGED df
    /\ UNCHANGED <<csv, report, notEnrollVars>>

\* clean_data as if main went on to the next stage after reporting the error.
ae_clean_data_continues ==
    /\ pc = "loaded"
    /\ IF clean_data_raises(df)
       THEN /\ pc' = "cleaned"
            /\ printed' = printed \o <<"banner">>
            /\ UNCHANGED df
       ELSE /\ df' = clean_data(df)
            /\ pc' = "cleaned"
            /\ printed' = printed \o <<"cleaned">>
    /\ UNCHANGED <<csv, report, notEnrollVars>>

ae_clean_data ==
    /\ pc = "loaded"
    /\ IF clean_data_raises(df)
       THEN /\ pc' = "error"
            /\ printed' = printed \o <<"banner">>
            /\ UNCHANGED df
       ELSE /\ df' = clean_data(df)
            /\ pc' = "cleaned"
            /\ printed' = printed \o <<"cleaned">>
    /\ UNCHANGED <<csv, report, notEnrollVars>>

sort_and_save_data ==
    /\ pc = "cleaned"
    /\ \E sorted \in SortedByDate(df) :
          df' = [i \in 1..Len(sorted) |-> RoundTripDate(sorted[i])]
    /\ pc' = "sorted"
    /\ printed' = printed \o <<"sorted">>
    /\ UNCHANGED <<csv, report, notEnrollVars>>

\* main, lines 185-186
add_total_enrollments ==
    /\ pc = "sorted"
    /\ df' = AddTotals(df)
    /\ pc' = "totalled"
    /\ UNCHANGED <<csv, report, printed, notEnrollVars>>

\* line 75, df['date'].min().date(): the minimum of a column with no date in
\* it (no row, or NaT in every row) is NaT, and NaT.date() raises ValueError.
date_range_raises(rows) == \A i \in 1..Len(rows) : rows[i].date.k # "ts"

\* analyze_enrollment as if line 88 ended in tail(10).
analyze_enrollment_tail ==
    /\ pc = "totalled"
    /\ IF date_range_raises(df)
       THEN /\ pc' = "error"
            /\ printed' = printed \o <<"banner">>
            /\ UNCHANGED <<df, report>>
       ELSE /\ df' = AddTotals(df)
            /\ \E sorted \in SortedDescending(StateTotals(df')) :
                  report' = [report EXCEPT
                      !.age_totals = AgeTotals(df),
                      !.state_totals =
                          IF Len(sorted) <= TopStates THEN sorted
                          ELSE SubSeq(sorted, Len(sorted) - TopStates + 1, Len(sorted))]
            /\ pc' = "analyzed"
            /\ printed' = printed \o <<"analyzed">>
    /\ UNCHANGED <<csv, notEnrollVars>>

analyze_enrollment ==
    /\ pc = "totalled"
    /\ IF date_range_raises(df)
       THEN /\ pc' = "error"
            /\ printed' = printed \o <<"banner">>
            /\ UNCHANGED <<df, report>>
       ELSE /\ df' = AddTotals(df)
            /\ \E sorted \in SortedDescending(StateTotals(df')) :
                  report' = [report EXCEPT !.age_totals = AgeTotals(df),
                                           !.state_totals = Prefix(sorted, TopStates)]
            /\ pc' = "analyzed"
            /\ printed' = printed \o <<"analyzed">>
    /\ UNCHANGED <<csv, notEnrollVars>>

plot_enrollment_trends ==
    /\ pc = "analyzed"
    /\ df' = [i \in 1..Len(df) |-> WithCol(df[i], "month_year", MonthYear(df[i].date))]
    /\ \E asc \in SortedAscending(nlargest(StateTotals(df), TopStates)) :
          report' = [report EXCEPT !.daily_enrollments = DailyEnrollments(df),
                                   !.age_totals = AgeTotals(df),
                                   !.state_enrollments = asc,
                                   !.monthly = Monthly(df')]
    /\ pc' = "done"
    /\ printed' = printed \o <<"plotted", "complete">>
    /\ UNCHANGED <<csv, notEnrollVars>>


----------------------------------------------------------------------------
(* analysis.py *)
(* Floats are kept exact: Expected_Children and Enrolment_Gap in           *)
(* hundredths, Gap_Ratio in hundredths (2 decimals), Enrolment_Percentage  *)
(* in tenths (1 decimal).                                                  *)

MaxEnrol == 1
MaxPopUnits == 1
PopUnit == 75
ExpectedPercent == 8

PosInf == [k |-> "inf", v |-> 1]
NegInf == [k |-> "inf", v |-> -1]

RawEnrolments == {Num(n) : n \in 0..MaxEnrol} \cup {Num(60), NaNCell, StrCell}
RawPopulations == {Num(PopUnit * j) : j \in 0..MaxPopUnits} \cup {Num(1000), NaNCell}

AnalysisRows ==
    {[c \in {"State Name", "Enrolment Count", "Population"} |->
        CASE c = "State Name" -> s
          [] c = "Enrolment Count" -> e
          [] c = "Population" -> q] :
        s \in States \cup {NaN}, e \in RawEnrolments, q \in RawPopulations}

\* round(): n / d to the nearest integer, halves to even (numpy's rule), d > 0.
RoundHalfEven(n, d) ==
    LET q == n \div d
        r == n - q * d
    IN IF 2 * r < d THEN q
       ELSE IF 2 * r > d THEN q + 1
       ELSE IF q % 2 = 0 THEN q ELSE q + 1

\* A float division n / d scaled by `scale` and rounded: inf and NaN when d = 0.
RoundedQuotient(n, d, scale) ==
    IF d = 0
    THEN IF n > 0 THEN PosInf ELSE IF n < 0 THEN NegInf ELSE NaNCell
    ELSE IF d > 0 THEN Num(RoundHalfEven(n * scale, d))
    ELSE Num(RoundHalfEven(-(n * scale), -d))

\* line 28: df['Population'] * 0.08, in hundredths
ExpectedChildren(population) == population * ExpectedPercent

\* The subtraction of line 31 with its operands exchanged.
EnrolmentGapReversed(expected, enrolment) == 100 * enrolment - expected

\* line 31: Expected_Children - Enrolment, in hundredths
EnrolmentGap(expected, enrolment) == expected - 100 * enrolment

\* line 32: (Enrolment_Gap / Expected_Children).round(2), in hundredths
GapRatio(gap, expected) == RoundedQuotient(gap, expected, 100)

\* Line 35 without its "* 100": the fraction enrolled, to one decimal.
EnrolmentFraction(enrolment, expected) ==
    RoundedQuotient(100 * enrolment, expected, 10)

\* line 35: (Enrolment / Expected_Children * 100).round(1), in tenths
EnrolmentPercentage(enrolment, expected) ==
    RoundedQuotient(100 * enrolment, expected, 1000)

\* df.dropna(): a row with any missing cell is dropped.
AnyMissing(r) ==
    \/ r["State Name"] = NaN
    \/ r["Enrolment Count"].k = "nan"
    \/ r["Population"].k = "nan"

Complete(r) == ~AnyMissing(r)

\* df.rename(columns={'State Name': 'State', 'Enrolment Count': 'Enrolment'})
Renamed(r) ==
    [State |-> r["State Name"],
     Enrolment |-> r["Enrolment Count"],
     Population |-> r["Population"]]

\* pd.to_numeric(df['Enrolment']) raises on text that is no number.
to_numeric_raises(rows) == \E i \in 1..Len(rows) : rows[i].Enrolment.k = "str"

Metrics(r) ==
    LET expected == ExpectedChildren(r.Population.v)
        gap == EnrolmentGap(expected, r.Enrolment.v)
    IN [State |-> r.State, Enrolment |-> r.Enrolment, Population |-> r.Population,
        Expected_Children |-> expected,
        Enrolment_Gap |-> gap,
        Gap_Ratio |-> GapRatio(gap, expected),
        Enrolment_Percentage |-> EnrolmentPercentage(r.Enrolment.v, expected)]

NoCharts == [state_gap |-> <<>>, state_enrollment |-> <<>>]

\* line 11; lines 123-125 print 'Input file ... not found' when it is missing
an_read_csv ==
    /\ apc = "start"
    /\ IF AnalysisFile \in present
       THEN adf' = acsv /\ apc' = "read"
       ELSE apc' = "notfound" /\ UNCHANGED adf
    /\ UNCHANGED <<acsv, acharts, notAnalysisVars>>

\* lines 16-25: dropna, rename, to_numeric
an_clean ==
    /\ apc = "read"
    /\ LET kept == SelectSeq(adf, Complete)
           renamed == [i \in 1..Len(kept) |-> Renamed(kept[i])]
       IN IF to_numeric_raises(renamed)
          THEN apc' = "error" /\ adf' = renamed
          ELSE apc' = "cleaned" /\ adf' = renamed
    /\ UNCHANGED <<acsv, acharts, notAnalysisVars>>

\* lines 28-35
an_compute ==
    /\ apc = "cleaned"
    /\ adf' = [i \in 1..Len(adf) |-> Metrics(adf[i])]
    /\ apc' = "computed"
    /\ UNCHANGED <<acsv, acharts, notAnalysisVars>>

\* Series.mean() of float cells (skipna): NaN cells are skipped, an infinity
\* makes the mean that infinity, both infinities (or no value) make it NaN.
\* A finite mean is kept exact, as the sum v over the count n.
GroupMean(cells) ==
    LET vals == SelectSeq(cells, LAMBDA c : c.k # "nan")
        pos == \E i \in 1..Len(vals) : vals[i] = PosInf
        neg == \E i \in 1..Len(vals) : vals[i] = NegInf
    IN IF vals = <<>> \/ (pos /\ neg) THEN [k |-> "nan", v |-> 0, n |-> 0]
       ELSE IF pos THEN [k |-> "inf", v |-> 1, n |-> 0]
       ELSE IF neg THEN [k |-> "inf", v |-> -1, n |-> 0]
       ELSE [k |-> "num", v |-> SumSeq([i \in 1..Len(vals) |-> vals[i].v]),
             n |-> Len(vals)]

\* df.groupby('State')[col].mean(): one mean per state, states ascending
StateMeans(rows, col) ==
    LET order == SortSet({rows[i].State : i \in 1..Len(rows)}, StateRank)
    IN [i \in 1..Len(order) |->
          [key |-> order[i],
           val |-> GroupMean(Column(SelectSeq(rows, LAMBDA r : r.State = order[i]),
                                    col))]]

\* a >= b for two means that are not NaN
MeanGE(a, b) ==
    \/ a.k = "inf" /\ a.v = 1
    \/ b.k = "inf" /\ b.v = -1
    \/ a.k = "num" /\ b.k = "num" /\ a.v * b.n >= b.v * a.n

\* sort_values(ascending=False) of a series of means: descending, NaN last,
\* equal means in any order (the default sort is not stable).
SortedMeans(s) ==
    {[i \in 1..Len(s) |-> s[p[i]]] : p \in
        {q \in Perms(Len(s)) : \A i \in 1..(Len(s) - 1) :
            \/ s[q[i + 1]].val.k = "nan"
            \/ s[q[i]].val.k # "nan" /\ MeanGE(s[q[i]].val, s[q[i + 1]].val)}}

\* lines 53-84: charts 2 and 3, the mean Gap_Ratio and the mean
\* Enrolment_Percentage of each state
an_state_charts ==
    /\ apc = "computed"
    /\ \E g \in SortedMeans(StateMeans(adf, "Gap_Ratio")),
          e \in SortedMeans(StateMeans(adf, "Enrolment_Percentage")) :
          acharts' = [state_gap |-> g, state_enrollment |-> e]
    /\ apc' = "charted"
    /\ UNCHANGED <<acsv, adf, notAnalysisVars>>


----------------------------------------------------------------------------
(* Calendar *)

IsLeap(y) == (y % 4 = 0 /\ y % 100 # 0) \/ y % 400 = 0

DaysInMonth(y, m) ==
    IF m = 2 THEN (IF IsLeap(y) THEN 29 ELSE 28)
    ELSE IF m \in {4, 6, 9, 11} THEN 30 ELSE 31

\* Days since 1970-01-01 of a civil date.
DaysFromCivil(y, m, d) ==
    LET yy == IF m <= 2 THEN y - 1 ELSE y
        era == yy \div 400
        yoe == yy - era * 400
        doy == (153 * (IF m > 2 THEN m - 3 ELSE m + 9) + 2) \div 5 + d - 1
        doe == yoe * 365 + yoe \div 4 - yoe \div 100 + doy
    IN era * 146097 + doe - 719468

\* datetime.weekday(): Monday is 0, Sunday is 6.
Weekday(t) == (DaysFromCivil(t.y, t.m, t.d) + 3) % 7

NextDay(t) ==
    IF t.d < DaysInMonth(t.y, t.m) THEN Timestamp(t.y, t.m, t.d + 1)
    ELSE IF t.m < 12 THEN Timestamp(t.y, t.m + 1, 1)
    ELSE Timestamp(t.y + 1, 1, 1)

RECURSIVE AddDays(_, _)
AddDays(t, n) == IF n = 0 THEN t ELSE AddDays(NextDay(t), n - 1)

\* pd.date_range(start, end, freq='D'), of which every step-th day is kept,
\* n days in all
RECURSIVE DateRange(_, _, _)
DateRange(start, n, step) ==
    IF n = 0 THEN <<>>
    ELSE <<start>> \o DateRange(AddDays(start, step), n - 1, step)

----------------------------------------------------------------------------
(* analysis.py in float64.  Lines 28 and 31 are float64 operations: the     *)
(* sections above keep their results exact, this one rounds them as IEEE    *)
(* 754 does (to 53 significant bits, halves to even).  A natural number is  *)
(* its bits, lowest first; a float is [sign, m, e], sign * m * 2^e.         *)

RECURSIVE ToBits(_)
ToBits(n) == IF n = 0 THEN <<>> ELSE <<n % 2>> \o ToBits(n \div 2)

BitAt(a, i) == IF i <= Len(a) THEN a[i] ELSE 0

\* a + b, bit by bit: a carry enters place i when some lower place makes one
\* and every place between passes it on.
AddBits(a, b) ==
    LET n == (IF Len(a) > Len(b) THEN Len(a) ELSE Len(b)) + 1
        carry(i) == \E j \in 1..(i - 1) :
                        /\ BitAt(a, j) + BitAt(b, j) = 2
                        /\ \A k \in (j + 1)..(i - 1) : BitAt(a, k) + BitAt(b, k) >= 1
    IN [i \in 1..n |-> (BitAt(a, i) + BitAt(b, i) + (IF carry(i) THEN 1 ELSE 0)) % 2]

\* a without its leading zeros
Trim(a) ==
    IF \A i \in 1..Len(a) : a[i] = 0 THEN <<>>
    ELSE SubSeq(a, 1, CHOOSE i \in 1..Len(a) :
                         a[i] = 1 /\ \A j \in (i + 1)..Len(a) : a[j] = 0)

\* a - b for a >= b
SubBits(a, b) ==
    LET borrow(i) == \E j \in 1..(i - 1) :
                         /\ BitAt(a, j) < BitAt(b, j)
                         /\ \A k \in (j + 1)..(i - 1) : BitAt(a, k) <= BitAt(b, k)
    IN Trim([i \in 1..Len(a) |->
                (2 + BitAt(a, i) - BitAt(b, i) - (IF borrow(i) THEN 1 ELSE 0)) % 2])

\* a >= b, both without leading zeros
GEBits(a, b) ==
    \/ Len(a) > Len(b)
    \/ /\ Len(a) = Len(b)
       /\ \A i \in 1..Len(a) : a[i] < b[i] => \E j \in (i + 1)..Len(a) : a[j] > b[j]

ShiftLeft(a, k) == IF a = <<>> THEN a ELSE [i \in 1..k |-> 0] \o a

\* a * b, one shifted copy of a for every bit of b
RECURSIVE MulBits(_, _)
MulBits(a, b) ==
    IF b = <<>> THEN <<>>
    ELSE Trim(AddBits(IF Head(b) = 1 THEN a ELSE <<>>, ShiftLeft(MulBits(a, Tail(b)), 1)))

\* The float of an int64 cell (small enough to be exact).
IntFloat(n) == [sign |-> IF n < 0 THEN -1 ELSE 1, m |-> ToBits(IF n < 0 THEN -n ELSE n), e |-> 0]

\* The same value with an odd m, so that equal values are equal records.
Canonical(f) ==
    LET m == Trim(f.m)
        low == CHOOSE i \in 1..Len(m) : m[i] = 1 /\ \A j \in 1..(i - 1) : m[j] = 0
    IN IF m = <<>> THEN [sign |-> 1, m |-> <<>>, e |-> 0]
       ELSE [sign |-> f.sign, m |-> SubSeq(m, low, Len(m)), e |-> f.e + low - 1]

\* Rounding to float64: 53 significant bits, to nearest, halves to even.
MantissaBits == 53

RoundToDouble(f) ==
    LET m == Trim(f.m)
        n == Len(m)
        k == n - MantissaBits
        kept == SubSeq(m, k + 1, n)
        up == /\ m[k] = 1
              /\ \/ \E i \in 1..(k - 1) : m[i] = 1
                 \/ kept[1] = 1
    IN IF k <= 0 THEN Canonical(f)
       ELSE Canonical([sign |-> f.sign, e |-> f.e + k,
                       m |-> IF up THEN AddBits(kept, <<1>>) ELSE kept])

\* f + g without rounding
ExactSum(f, g) ==
    LET e == IF f.e < g.e THEN f.e ELSE g.e
        a == ShiftLeft(f.m, f.e - e)
        b == ShiftLeft(g.m, g.e - e)
    IN IF f.sign = g.sign THEN [sign |-> f.sign, m |-> AddBits(a, b), e |-> e]
       ELSE IF GEBits(a, b) THEN [sign |-> f.sign, m |-> SubBits(a, b), e |-> e]
       ELSE [sign |-> g.sign, m |-> SubBits(b, a), e |-> e]

DoubleAdd(f, g) == RoundToDouble(ExactSum(f, g))
DoubleSub(f, g) == DoubleAdd(f, [g EXCEPT !.sign = -g.sign])
DoubleMul(f, g) ==
    RoundToDouble([sign |-> f.sign * g.sign, m |-> MulBits(g.m, f.m), e |-> f.e + g.e])

\* The literal 0.08 of line 28: the float64 nearest to it, 0x147AE147AE147B * 2^-56
Double_0_08 ==
    [sign |-> 1, e |-> -56,
     m |-> <<1, 1, 0, 1, 1, 1, 1, 0, 0, 0, 1, 0, 1, 0, 0, 0, 0, 1, 1, 1, 0, 1, 0, 1, 1, 1, 1,
             0, 0, 0, 1, 0, 1, 0, 0, 0, 0, 1, 1, 1, 0, 1, 0, 1, 1, 1, 1, 0, 0, 0, 1, 0, 1>>]

\* line 28: df['Population'] * 0.08
ExpectedChildrenDouble(population) == DoubleMul(IntFloat(population), Double_0_08)

\* line 31: df['Expected_Children'] - df['Enrolment']
EnrolmentGapDouble(expected, enrolment) == DoubleSub(expected, IntFloat(enrolment))

\* lines 28-35, with Expected_Children and Enrolment_Gap as the float64 cells
\* the frame holds
an_compute_double ==
    /\ apc = "cleaned"
    /\ adf' = [i \in 1..Len(adf) |->
                 LET expected == ExpectedChildrenDouble(adf[i].Population.v)
                 IN [Metrics(adf[i]) EXCEPT
                        !.Expected_Children = expected,
                        !.Enrolment_Gap = EnrolmentGapDouble(expected, adf[i].Enrolment.v)]]
    /\ apc' = "computed"
    /\ UNCHANGED <<acsv, acharts, notAnalysisVars>>

----------------------------------------------------------------------------
(* generate_data.py *)
(* base_enrollments is a float; it is kept exact, in thousandths, with the *)
(* three factors in tenths.                                                *)

MaxDays == 2
DayStride == 31

state_names == <<"Assam", "Bihar", "Goa">>
states == <<"Assam", "Bihar">>
start_date == Timestamp(2023, 1, 1)
date_range == DateRange(start_date, MaxDays, DayStride)

PoissonDraws == {489, 500}
StateFactors == {15}
MaleRatios == {49}
\* line 69 draws 'Permanent' or 'Temporary'; no aggregation below reads it
CenterTypes == {"Permanent"}

Draws == [n : PoissonDraws, sf : StateFactors, mr : MaleRatios, ct : CenterTypes]

seasonal_factor(month) ==
    IF month \in {1, 2, 12} THEN 12 ELSE IF month \in {6, 7, 8} THEN 8 ELSE 10

weekend_factor(day_of_week) == IF day_of_week >= 5 THEN 6 ELSE 10

base_enrollments(date, draw) ==
    draw.n * draw.sf * seasonal_factor(date.m) * weekend_factor(Weekday(date))

\* int(base_enrollments * percent / 100), base in thousandths
Share(base, percent) == (base * percent) \div 100000

\* lines 60-70: one row of sample_data.csv; to_csv writes the date as text.
GenRow(date, state, draw) ==
    LET base == base_enrollments(date, draw)
    IN [date |-> DateText("iso", date.y, date.m, date.d),
        state |-> state,
        total_enrollments |-> base \div 1000,
        male_enrollments |-> Share(base, draw.mr),
        female_enrollments |-> Share(base, 100 - draw.mr),
        child_enrollments |-> Share(base, 25),
        adult_enrollments |-> Share(base, 55),
        senior_enrollments |-> Share(base, 20),
        center_type |-> draw.ct]

generate_data ==
    /\ dpc = "start"
    /\ \E draw \in [(1..Len(date_range)) \X (1..Len(states)) -> Draws] :
          sample' = [k \in 1..(Len(date_range) * Len(states)) |->
                       LET di == ((k - 1) \div Len(states)) + 1
                           si == ((k - 1) % Len(states)) + 1
                       IN GenRow(date_range[di], states[si], draw[<<di, si>>])]
    /\ dpc' = "generated"
    /\ UNCHANGED <<fdf, last, runs, ties, sidebar, notDashVars>>

----------------------------------------------------------------------------
(* dashboard.py *)

Kinds == {"daily", "monthly", "seasonal", "state_totals", "ranked", "demographics",
          "insights"}

\* The sidebar before any widget is touched: the whole date range, every
\* state and both center types, which selects every row.
Defaults == [date_range |-> <<>>, selected_states |-> {}, center_types |-> {}]

NoLast ==
    [daily |-> <<>>, monthly |-> <<>>, seasonal |-> <<>>,
     state_totals |-> <<>>, ranked |-> [n |-> 0, rows |-> <<>>],
     demographics |-> [gender |-> <<>>, age |-> <<>>],
     insights |-> <<>>]

\* top_n: any value for the function on its own; main's slider gives 5..20
TopNs == 0..(Len(state_names) + 1)
SliderTopNs == {5, 10, 20}

\* The orders in which a sort may leave equal values: a priority per state.
TieOrders ==
    {t \in [1..Len(state_names) -> 1..Len(state_names)] :
        \A i, j \in 1..Len(state_names) : t[i] = t[j] => i = j}

StateIndex(s) == CHOOSE i \in 1..Len(state_names) : state_names[i] = s
DashStateRank ==
    [s \in {state_names[i] : i \in 1..Len(state_names)} |-> StateIndex(s)]

\* pd.to_datetime(df['date']) on the text to_csv wrote
to_datetime_iso(c) == IF c.k = "iso" THEN Timestamp(c.y, c.m, c.d) ELSE NaT

\* df['date'].dt.to_period('M').astype(str): '2023-01'
PeriodStr(t) == [k |-> "period", y |-> t.y, m |-> t.m]
\* df['date'].dt.month
MonthInt(t) == [k |-> "int", y |-> 0, m |-> t.m]
\* df['date'].dt.strftime('%B') and strftime('%B %Y')
MonthName(t) == [k |-> "%B", y |-> 0, m |-> t.m]
MonthNameYear(t) == [k |-> "%B %Y", y |-> t.y, m |-> t.m]

\* The place of each month's English name in alphabetical order.
AlphabeticalMonth ==
    <<5, 4, 8, 1, 9, 7, 6, 2, 12, 11, 10, 3>>

MonthRank(S) == [c \in S |-> c.y * 100 + c.m]
MonthNameRank(S) == [c \in S |-> AlphabeticalMonth[c.m] * 10000 + c.y]

SetColumn(rows, name, f(_)) ==
    [i \in 1..Len(rows) |-> WithCol(rows[i], name, f(rows[i].date))]

Cells(rows, name) == {rows[i][name] : i \in 1..Len(rows)}

\* groupby(key)['total_enrollments'].sum() of the dashboard's integer column
TotalsBy(rows, key, rank) ==
    GroupBySum(Column(rows, key),
               [i \in 1..Len(rows) |-> rows[i].total_enrollments], {}, rank)

\* groupby(...).mean(): the mean as <<sum, count>>
MeansBy(rows, key, rank) ==
    LET sums == TotalsBy(rows, key, rank)
    IN [i \in 1..Len(sums) |->
          [key |-> sums[i].key,
           val |-> <<sums[i].val,
                     Cardinality({j \in 1..Len(rows) : rows[j][key] = sums[i].key})>>]]

\* sort_values(ascending=False) as the build computes it: descending, ties
\* in the order tie gives the states.
SortDescending(series, tie) ==
    LET p == CHOOSE q \in Perms(Len(series)) :
                 \A i \in 1..(Len(series) - 1) :
                     \/ series[q[i]].val > series[q[i + 1]].val
                     \/ /\ series[q[i]].val = series[q[i + 1]].val
                        /\ tie[StateIndex(series[q[i]].key)]
                              < tie[StateIndex(series[q[i + 1]].key)]
    IN [i \in 1..Len(series) |-> series[p[i]]]

\* Series.idxmax(): the key of the first largest value
idxmax(series) ==
    series[CHOOSE i \in 1..Len(series) :
              /\ \A j \in 1..Len(series) : series[j].val <= series[i].val
              /\ \A j \in 1..(i - 1) : series[j].val < series[i].val].key

IntColumnSum(rows, col) == SumSeq([i \in 1..Len(rows) |-> rows[i][col]])

Ran(kind) == [ran |-> runs.ran \cup {kind}, again |-> runs.again \/ kind \in runs.ran]

\* lines 51-52: read_csv, then pd.to_datetime on the date column
read_sample(rows) ==
    [i \in 1..Len(rows) |-> [rows[i] EXCEPT !.date = to_datetime_iso(rows[i].date)]]

\* load_data and main's filters at the widgets' defaults (every row selected).
\* sample_data.csv exists once generate_data.py has run; without it load_data
\* shows st.error and calls st.stop().
dash_load_data ==
    /\ dpc \in {"start", "generated"}
    /\ IF dpc = "generated"
       THEN /\ fdf' = read_sample(sample)
            /\ dpc' = "loaded"
       ELSE /\ dpc' = "stopped"
            /\ UNCHANGED fdf
    /\ UNCHANGED <<sample, last, runs, ties, sidebar, notDashVars>>

\* lines 196-220: what the three sidebar widgets can return for a dataset.
\* date_input holds no, one or two dates between the first and the last date
\* of the data; the multiselects hold any of their options.
DateInputs(rows) ==
    LET days == {d \in {date_range[i] : i \in 1..Len(date_range)} :
                    \E i, j \in 1..Len(rows) :
                        /\ DateKey(rows[i].date) <= DateKey(d)
                        /\ DateKey(d) <= DateKey(rows[j].date)}
    IN {<<>>} \cup {<<d>> : d \in days}
           \cup {r \in days \X days : DateKey(r[1]) <= DateKey(r[2])}

Sidebars(rows) ==
    [date_range : DateInputs(rows),
     selected_states : SUBSET {rows[i].state : i \in 1..Len(rows)},
     center_types : SUBSET {"Permanent", "Temporary"}]

\* The filters as if the center type multiselect were never read.
apply_filters_any_center(rows, side) ==
    SelectSeq(rows, LAMBDA r :
        /\ Len(side.date_range) = 2 =>
               /\ DateKey(r.date) >= DateKey(side.date_range[1])
               /\ DateKey(r.date) <= DateKey(side.date_range[2])
        /\ r.state \in side.selected_states)

\* lines 222-234: the rows main keeps
apply_filters(rows, side) ==
    SelectSeq(rows, LAMBDA r :
        /\ Len(side.date_range) = 2 =>
               /\ DateKey(r.date) >= DateKey(side.date_range[1])
               /\ DateKey(r.date) <= DateKey(side.date_range[2])
        /\ r.state \in side.selected_states
        /\ r.center_type \in side.center_types)

\* main with the widgets away from their defaults: the filters are applied
\* to the dataset load_data returned.
main_apply_filters ==
    /\ dpc = "loaded"
    /\ \E side \in Sidebars(fdf) :
          /\ sidebar' = side
          /\ fdf' = apply_filters(fdf, side)
    /\ dpc' = "filtered"
    /\ UNCHANGED <<sample, last, runs, ties, notDashVars>>

\* plot_time_series(df, freq='D')
DailyTotals(rows) == TotalsBy(rows, "date", DateRank(Cells(rows, "date")))

plot_time_series_daily ==
    /\ dpc = "loaded"
    /\ last' = [last EXCEPT !.daily = DailyTotals(fdf)]
    /\ runs' = Ran("daily")
    /\ UNCHANGED <<sample, fdf, dpc, ties, sidebar, notDashVars>>

\* Line 80 skipped when the frame already has a 'month' column.
MonthColumnKeptIfPresent(rows) ==
    IF rows # <<>> /\ "month" \in DOMAIN rows[1] THEN rows
    ELSE SetColumn(rows, "month", PeriodStr)

\* plot_time_series(df, freq='M'): line 80 writes df['month'], line 81 reads it
MonthColumnOfTimeSeries(rows) == SetColumn(rows, "month", PeriodStr)

MonthlyTotals(rows) == TotalsBy(rows, "month", MonthRank(Cells(rows, "month")))

plot_time_series_monthly ==
    /\ dpc = "loaded"
    /\ fdf' = MonthColumnOfTimeSeries(fdf)
    /\ last' = [last EXCEPT !.monthly = MonthlyTotals(fdf')]
    /\ runs' = Ran("monthly")
    /\ UNCHANGED <<sample, dpc, ties, sidebar, notDashVars>>

\* plot_seasonal_patterns: lines 133-136; the key is (month, month_name)
SeasonalColumns(rows) ==
    SetColumn(SetColumn(rows, "month", MonthInt), "month_name", MonthName)

SeasonalKey(rows) ==
    [i \in 1..Len(rows) |->
        WithCol(rows[i], "season", <<rows[i].month, rows[i].month_name>>)]

MonthlyAverages(rows) ==
    LET keyed == SeasonalKey(rows)
    IN MeansBy(keyed, "season",
               [c \in Cells(keyed, "season") |-> c[1].y * 100 + c[1].m])

plot_seasonal_patterns ==
    /\ dpc = "loaded"
    /\ fdf' = SeasonalColumns(fdf)
    /\ last' = [last EXCEPT !.seasonal = MonthlyAverages(fdf')]
    /\ runs' = Ran("seasonal")
    /\ UNCHANGED <<sample, dpc, ties, sidebar, notDashVars>>

\* head(top_n) taken before sort_values instead of after it.
rank_head_first(results, n, tie) == SortDescending(Prefix(results, n), tie)

\* plot_state_comparison(df, top_n): groupby, sort_values, head
rank(results, n, tie) == Prefix(SortDescending(results, tie), n)

StateComparison(rows, top_n, tie) == rank(TotalsBy(rows, "state", DashStateRank), top_n, tie)

\* plot_state_comparison on its own, with any top_n
plot_state_comparison ==
    /\ dpc = "loaded"
    /\ \E top_n \in TopNs :
          last' = [last EXCEPT !.ranked =
                      [n |-> top_n, rows |-> StateComparison(fdf, top_n, ties)]]
    /\ runs' = Ran("ranked")
    /\ UNCHANGED <<sample, fdf, dpc, ties, sidebar, notDashVars>>

\* main, lines 277-278: plot_state_comparison(filtered_df, top_n) with the
\* slider's value
main_state_comparison ==
    /\ dpc = "loaded"
    /\ \E top_n \in SliderTopNs :
          last' = [last EXCEPT !.state_totals = StateComparison(fdf, top_n, ties)]
    /\ runs' = Ran("state_totals")
    /\ UNCHANGED <<sample, fdf, dpc, ties, sidebar, notDashVars>>

\* plot_demographics: the sums behind the two pie charts
GenderData(rows) ==
    <<IntColumnSum(rows, "male_enrollments"), IntColumnSum(rows, "female_enrollments")>>
AgeData(rows) ==
    <<IntColumnSum(rows, "child_enrollments"), IntColumnSum(rows, "adult_enrollments"),
      IntColumnSum(rows, "senior_enrollments")>>

plot_demographics ==
    /\ dpc = "loaded"
    /\ last' = [last EXCEPT !.demographics =
                   [gender |-> GenderData(fdf), age |-> AgeData(fdf)]]
    /\ runs' = Ran("demographics")
    /\ UNCHANGED <<sample, fdf, dpc, ties, sidebar, notDashVars>>

\* generate_insights: line 169 writes df['month_name']
InsightColumns(rows) == SetColumn(rows, "month_name", MonthNameYear)

Insights(rows) ==
    LET by_state == TotalsBy(rows, "state", DashStateRank)
        by_month == TotalsBy(rows, "month_name", MonthNameRank(Cells(rows, "month_name")))
    IN <<idxmax(by_state), idxmax(by_month)>>

generate_insights ==
    /\ dpc = "loaded"
    /\ fdf # <<>>
    /\ fdf' = InsightColumns(fdf)
    /\ last' = [last EXCEPT !.insights = Insights(fdf')]
    /\ runs' = Ran("insights")
    /\ UNCHANGED <<sample, dpc, ties, sidebar, notDashVars>>

----------------------------------------------------------------------------
(* app.py: the moving averages of plot_forecasting, lines 326-327 *)

MaxLen == 3
MaxWindow == 3
SeriesValues == {10, 20, 30}

\* Series.rolling(window, min_periods=1).mean() as pandas computes it: one
\* pass that adds the entering value and removes the one leaving the window.
\* The mean is kept exact, as [sum, nobs]; NaN while nobs < min_periods.
min_periods == 1

RECURSIVE RollFrom(_, _, _, _, _)
RollFrom(s, w, i, sum, nobs) ==
    IF i > Len(s) THEN <<>>
    ELSE LET leaving == i > w
             sum2 == sum + s[i] - (IF leaving THEN s[i - w] ELSE 0)
             nobs2 == nobs + 1 - (IF leaving THEN 1 ELSE 0)
         IN <<IF nobs2 >= min_periods THEN [sum |-> sum2, nobs |-> nobs2]
              ELSE [sum |-> 0, nobs |-> 0]>>
            \o RollFrom(s, w, i + 1, sum2, nobs2)

\* A window one value wider than asked for.
rolling_mean_wide(s, w) == RollFrom(s, w + 1, 1, 0, 0)

rolling_mean(s, w) == RollFrom(s, w, 1, 0, 0)

\* line 325, .fillna(method='ffill'): a missing day takes the latest value
\* before it
RECURSIVE ffill(_, _)
ffill(s, latest) ==
    IF s = <<>> THEN <<>>
    ELSE LET v == IF IsNum(Head(s)) THEN Head(s).v ELSE latest
         IN <<v>> \o ffill(Tail(s), v)

\* lines 310-325: the daily totals on a dense daily index, gaps filled.
\* The index runs from the first to the last day with a record.
asfreq_ffill ==
    /\ ts = <<>>
    /\ ts' = ffill(daily, 0)
    /\ UNCHANGED <<daily, window, ma, forecast, notRollVars>>

rolling_apply ==
    /\ ts # <<>>
    /\ ma = <<>>
    /\ ma' = rolling_mean(ts, window)
    /\ UNCHANGED <<daily, ts, window, forecast, notRollVars>>

\* plot_forecasting on a daily series of its own.
MinPoints == 30
ShortWindow == 7
LongWindow == 30
ForecastDays == 30
LastDays == 30

NoForecast ==
    [kind |-> "none", ma7 |-> <<>>, ma30 |-> <<>>, dates |-> <<>>, values |-> <<>>,
     lower |-> <<>>, upper |-> <<>>]

\* Series.mean(), exact, as [sum, nobs]
Mean(s) == [sum |-> SumSeq(s), nobs |-> Len(s)]
Times(m, num, den) == [sum |-> m.sum * num, nobs |-> m.nobs * den]

\* The forecast as if line 333 took the mean of the whole series.
forecast_value_whole_series(s) == Mean(s)

\* line 333: daily_ts[-30:].mean(), or the mean of a shorter series
forecast_value(s) ==
    IF Len(s) >= LastDays THEN Mean(SubSeq(s, Len(s) - LastDays + 1, Len(s)))
    ELSE Mean(s)

\* len(daily_ts) at line 313: the days that have a record
Points(s) == Len(SelectSeq(s, IsNum))

\* Days are counted from the first day of the series: day Len(daily) is the
\* last observed date.
plot_forecasting_series ==
    /\ forecast = NoForecast
    /\ IF Points(daily) < MinPoints
       THEN /\ forecast' = [NoForecast EXCEPT !.kind = "warning"]
            /\ UNCHANGED ts
       ELSE /\ ts' = ffill(daily, 0)
            /\ forecast' =
                  [kind |-> "plotted",
                   ma7 |-> rolling_mean(ts', ShortWindow),
                   ma30 |-> rolling_mean(ts', LongWindow),
                   dates |-> [i \in 1..ForecastDays |-> Len(ts') + i],
                   values |-> [i \in 1..ForecastDays |-> forecast_value(ts')],
                   lower |-> [i \in 1..(ForecastDays + 1) |-> Times(forecast_value(ts'), 9, 10)],
                   upper |-> [i \in 1..(ForecastDays + 1) |-> Times(forecast_value(ts'), 11, 10)]]
    /\ UNCHANGED <<daily, window, ma, notRollVars>>

----------------------------------------------------------------------------
(* app.py: load_data and the sections of the page, by the columns they read. *)
(* The script runs top to bottom; a KeyError outside a try block ends it.   *)

\* dates: whether the Date column holds timestamps or text (read_csv parses no
\* dates, and line 73 fills in a strftime text)
NoDataset == [src |-> "none", columns |-> {}, dates |-> "none"]

\* lines 101-123: the columns of the generated sample dataset
SampleColumns ==
    {"Date", "Age_0_5", "Age_5_17", "Age_18_plus", "State", "Gender", "Urban_Rural",
     "Month", "Year", "Month_Num", "Day_of_Week", "Total_Enrolments"}

\* the columns the sections below read
ChartColumns ==
    {"Date", "State", "Month", "Total_Enrolments", "Age_0_5", "Age_5_17", "Age_18_plus"}

\* analysis.py line 38 writes its frame to cleaned_aadhaar_analysis.csv
AnalysisColumns ==
    DOMAIN Metrics([State |-> "A", Enrolment |-> Num(0), Population |-> Num(0)])

AppFileColumns == {AnalysisColumns} \cup SUBSET ChartColumns

\* load_data, lines 67-125
app_load_data ==
    /\ apppc = "start"
    /\ IF AppFile \in present
       THEN /\ appdf' = [src |-> "file", columns |-> appfile \cup {"Date", "State"},
                          dates |-> "text"]
            /\ UNCHANGED appmsgs
       ELSE /\ appdf' = [src |-> "sample", columns |-> SampleColumns,
                          dates |-> "datetime"]
            /\ appmsgs' = appmsgs \o <<"sample_data_warning">>
    /\ apppc' = "loaded"
    /\ UNCHANGED <<appfile, notAppVars>>

\* The outcome of a section that reads the columns `needs` outside any try
\* block: the next stage, or the KeyError that ends the run.
After(to, needs) == IF needs \subseteq appdf.columns THEN to ELSE "KeyError"

\* plot_metrics, lines 133-141: line 141 subtracts a Timedelta from the
\* largest Date, a TypeError when the column holds text
plot_metrics ==
    /\ apppc = "loaded"
    /\ apppc' = IF ~({"Total_Enrolments", "Date"} \subseteq appdf.columns) THEN "KeyError"
                ELSE IF appdf.dates = "text" THEN "TypeError"
                ELSE "metrics"
    /\ UNCHANGED <<appfile, appdf, appmsgs, notAppVars>>

\* the rest of the overview tab: the last 30 days
app_overview ==
    /\ apppc = "metrics"
    /\ apppc' = After("overview", {"Date", "Total_Enrolments", "Age_0_5", "Age_5_17",
                                   "Age_18_plus"})
    /\ UNCHANGED <<appfile, appdf, appmsgs, notAppVars>>

\* plot_time_series_analysis, lines 175-176
plot_time_series_analysis ==
    /\ apppc = "overview"
    /\ apppc' = After("time_series", {"Date", "Month", "Total_Enrolments"})
    /\ UNCHANGED <<appfile, appdf, appmsgs, notAppVars>>

\* plot_demographic_analysis
plot_demographic_analysis ==
    /\ apppc = "time_series"
    /\ apppc' = After("demographics", {"Age_0_5", "Age_5_17", "Age_18_plus"})
    /\ UNCHANGED <<appfile, appdf, appmsgs, notAppVars>>

\* plot_geographical_analysis: guarded by 'State' in df.columns
plot_geographical_analysis ==
    /\ apppc = "demographics"
    /\ apppc' = After("geography",
                      IF "State" \in appdf.columns THEN {"State", "Total_Enrolments"}
                      ELSE {})
    /\ UNCHANGED <<appfile, appdf, appmsgs, notAppVars>>

\* plot_forecasting: the whole body is in a try block that shows st.error
plot_forecasting ==
    /\ apppc = "geography"
    /\ apppc' = "done"
    /\ appmsgs' = IF {"Date", "Total_Enrolments"} \subseteq appdf.columns
                  THEN appmsgs ELSE appmsgs \o <<"forecast_error">>
    /\ UNCHANGED <<appfile, appdf, notAppVars>>

----------------------------------------------------------------------------
(* Specifications: one per script; the other scripts' variables stay idle. *)

IdleEnroll ==
    /\ csv = <<>> /\ df = <<>> /\ pc = "idle" /\ report = NoReport /\ printed = <<>>

IdleAnalysis ==
    /\ acsv = <<>> /\ adf = <<>> /\ apc = "idle" /\ acharts = NoCharts

NoRuns == [ran |-> {}, again |-> FALSE]
StableTies == [i \in 1..Len(state_names) |-> i]

IdleDash ==
    /\ sample = <<>> /\ fdf = <<>> /\ dpc = "idle" /\ last = NoLast /\ runs = NoRuns
    /\ ties = StableTies /\ sidebar = Defaults

IdleRoll ==
    /\ daily = <<>> /\ ts = <<>> /\ window = 1 /\ ma = <<>> /\ forecast = NoForecast

IdleApp ==
    /\ appfile = {} /\ appdf = NoDataset /\ apppc = "idle" /\ appmsgs = <<>>

\* analyze_enrollment.py: main on any csv of up to MaxRows rows
InitEnroll ==
    /\ \/ present = {EnrolmentFiles} /\ csv \in SeqsUpTo(RawRows, MaxRows)
       \/ present = {} /\ csv = <<>>
    /\ df = <<>>
    /\ pc = "start"
    /\ report = NoReport
    /\ printed = <<>>
    /\ IdleAnalysis
    /\ IdleDash
    /\ IdleRoll
    /\ IdleApp

NextEnroll ==
    \/ ae_load_data
    \/ ae_clean_data
    \/ sort_and_save_data
    \/ add_total_enrollments
    \/ analyze_enrollment
    \/ plot_enrollment_trends

SpecEnroll == InitEnroll /\ [][NextEnroll]_vars

\* analyze_enrollment.py: main on rows that differ in date and state only, so
\* that each stage that can raise does so on some input
MainRows ==
    {r \in RawRows :
        /\ r.state \in States /\ r.district # NaN
        /\ \A i \in 1..Len(age_columns) : r[age_columns[i]] = Num(1)}

InitMain ==
    /\ \/ present = {EnrolmentFiles} /\ csv \in SeqsUpTo(MainRows, MaxRows)
       \/ present = {} /\ csv = <<>>
    /\ df = <<>>
    /\ pc = "start"
    /\ report = NoReport
    /\ printed = <<>>
    /\ IdleAnalysis
    /\ IdleDash
    /\ IdleRoll
    /\ IdleApp

SpecMain == InitMain /\ [][NextEnroll]_vars

\* analyze_enrollment.py: main on a csv with one state more than the top-10
\* lists hold. Each state has one record, on a day of its own; the k-th state
\* has k enrolments, except that one state may have any other of these
\* totals, which ties it with another state.
ManyStates == SelectSeq(StateKeys, LAMBDA k : k # PaddedState)

ManyStatesCsv(j, v) ==
    [i \in 1..Len(ManyStates) |->
        [date |-> DateText("dmy", 2023, 1, i), state |-> ManyStates[i],
         district |-> "L", pincode |-> "L",
         age_0_5 |-> Num(IF i = j THEN v ELSE i),
         age_5_17 |-> Num(0), age_18_greater |-> Num(0)]]

InitTop ==
    /\ present = {EnrolmentFiles}
    /\ \E j, v \in 1..Len(ManyStates) : csv = ManyStatesCsv(j, v)
    /\ df = <<>>
    /\ pc = "start"
    /\ report = NoReport
    /\ printed = <<>>
    /\ IdleAnalysis
    /\ IdleDash
    /\ IdleRoll
    /\ IdleApp

SpecTop == InitTop /\ [][NextEnroll]_vars

\* analysis.py on any csv of up to MaxRows rows
InitAnalysis ==
    /\ \/ present = {AnalysisFile} /\ acsv \in SeqsUpTo(AnalysisRows, MaxRows)
       \/ present = {} /\ acsv = <<>>
    /\ adf = <<>>
    /\ apc = "start"
    /\ acharts = NoCharts
    /\ IdleEnroll
    /\ IdleDash
    /\ IdleRoll
    /\ IdleApp

NextAnalysis ==
    \/ an_read_csv
    \/ an_clean
    \/ an_compute
    \/ an_state_charts

SpecAnalysis == InitAnalysis /\ [][NextAnalysis]_vars

\* analysis.py in float64 on a csv of one row
DoublePopulations == {1, 75, 1000, 1001, 1234}
DoubleEnrolments == {0, 1, 7, 60, 85, 300}

InitDouble ==
    /\ present = {AnalysisFile}
    /\ \E q \in DoublePopulations, n \in DoubleEnrolments :
          acsv = <<[c \in {"State Name", "Enrolment Count", "Population"} |->
                     CASE c = "State Name" -> "A"
                       [] c = "Enrolment Count" -> Num(n)
                       [] c = "Population" -> Num(q)]>>
    /\ adf = <<>>
    /\ apc = "start"
    /\ acharts = NoCharts
    /\ IdleEnroll
    /\ IdleDash
    /\ IdleRoll
    /\ IdleApp

NextDouble ==
    \/ an_read_csv
    \/ an_clean
    \/ an_compute_double

SpecDouble == InitDouble /\ [][NextDouble]_vars

\* generate_data.py, then dashboard.py's chart functions in any order on the
\* dataset main loaded
InitDash ==
    /\ sample = <<>>
    /\ fdf = <<>>
    /\ dpc = "start"
    /\ last = NoLast
    /\ runs = NoRuns
    /\ ties = StableTies
    /\ sidebar = Defaults
    /\ IdleEnroll
    /\ IdleAnalysis
    /\ IdleRoll
    /\ IdleApp
    /\ present = {}

NextDash ==
    \/ generate_data
    \/ dash_load_data
    \/ plot_time_series_daily
    \/ plot_time_series_monthly
    \/ plot_seasonal_patterns
    \/ main_state_comparison
    \/ plot_demographics
    \/ generate_insights

SpecDash == InitDash /\ [][NextDash]_vars

\* plot_state_comparison as a function: any dataset of up to MaxRankRows rows
\* (the columns it reads), any top_n, any order among ties
MaxRankRows == 3
MaxTotal == 1
RankRows == [state : {state_names[i] : i \in 1..Len(state_names)},
             total_enrollments : 0..MaxTotal]

InitRank ==
    /\ sample = <<>>
    /\ fdf \in SeqsUpTo(RankRows, MaxRankRows)
    /\ dpc = "loaded"
    /\ last = NoLast
    /\ runs = NoRuns
    /\ ties \in TieOrders
    /\ sidebar = Defaults
    /\ IdleEnroll
    /\ IdleAnalysis
    /\ IdleRoll
    /\ IdleApp
    /\ present = {}

NextRank == plot_state_comparison

SpecRank == InitRank /\ [][NextRank]_vars

\* dashboard.py: main's filters on any sample_data.csv of up to MaxRows rows
\* (the columns the filters read), with any values of the sidebar widgets
FilterRows ==
    [date : {DateText("iso", date_range[i].y, date_range[i].m, date_range[i].d) :
                i \in 1..Len(date_range)},
     state : {states[i] : i \in 1..Len(states)},
     center_type : {"Permanent", "Temporary"}]

InitFilter ==
    /\ sample \in SeqsUpTo(FilterRows, MaxRows)
    /\ fdf = <<>>
    /\ dpc = "generated"
    /\ last = NoLast
    /\ runs = NoRuns
    /\ ties = StableTies
    /\ sidebar = Defaults
    /\ IdleEnroll
    /\ IdleAnalysis
    /\ IdleRoll
    /\ IdleApp
    /\ present = {}

NextFilter ==
    \/ dash_load_data
    \/ main_apply_filters

SpecFilter == InitFilter /\ [][NextFilter]_vars

\* app.py: one run of the script, with cleaned_aadhaar_analysis.csv missing or
\* holding any of the column sets of AppFileColumns
InitApp ==
    /\ \/ present = {AppFile} /\ appfile \in AppFileColumns
       \/ present = {} /\ appfile = {}
    /\ appdf = NoDataset
    /\ apppc = "start"
    /\ appmsgs = <<>>
    /\ IdleEnroll
    /\ IdleAnalysis
    /\ IdleDash
    /\ IdleRoll

NextApp ==
    \/ app_load_data
    \/ plot_metrics
    \/ app_overview
    \/ plot_time_series_analysis
    \/ plot_demographic_analysis
    \/ plot_geographical_analysis
    \/ plot_forecasting

SpecApp == InitApp /\ [][NextApp]_vars

\* Any one of the four scripts, run once, with its input file present or
\* missing. analyze_enrollment.py runs on rows that clean without loss.
CleanRows ==
    {r \in RawRows :
        /\ r.date.k = "dmy" /\ r.state \in States /\ r.district # NaN
        /\ \A i \in 1..Len(age_columns) :
              IsNum(r[age_columns[i]]) /\ r[age_columns[i]].v >= 0}

InitEnrollClean ==
    /\ \/ present = {EnrolmentFiles} /\ csv \in SeqsUpTo(CleanRows, MaxRows)
       \/ present = {} /\ csv = <<>>
    /\ df = <<>>
    /\ pc = "start"
    /\ report = NoReport
    /\ printed = <<>>
    /\ IdleAnalysis
    /\ IdleDash
    /\ IdleRoll
    /\ IdleApp

InitScripts ==
    \/ InitEnrollClean
    \/ InitAnalysis
    \/ InitDash
    \/ InitApp

NextScripts ==
    \/ NextEnroll
    \/ NextAnalysis
    \/ NextDash
    \/ NextApp

SpecScripts == InitScripts /\ [][NextScripts]_vars

\* rolling(window, min_periods=1).mean() as a function: any series of up to
\* MaxLen values, any window up to MaxWindow
InitRoll ==
    /\ daily \in {s \in SeqsUpTo({Num(v) : v \in SeriesValues} \cup {NaNCell}, MaxLen) :
                     IsNum(s[1]) /\ IsNum(s[Len(s)])}
    /\ ts = <<>>
    /\ window \in 1..MaxWindow
    /\ ma = <<>>
    /\ forecast = NoForecast
    /\ IdleEnroll
    /\ IdleAnalysis
    /\ IdleDash
    /\ IdleApp
    /\ present = {}

NextRoll ==
    \/ asfreq_ffill
    \/ rolling_apply

SpecRoll == InitRoll /\ [][NextRoll]_vars

\* plot_forecasting as a function of the daily series: series of about
\* MinPoints days that hold one value up to some day and another from then
\* on, with no record on any of three days
StepSeries(n, gaps, c, lo, hi) ==
    [i \in 1..n |-> IF i \in gaps THEN NaNCell ELSE Num(IF i < c THEN lo ELSE hi)]

InitForecast ==
    /\ \E n \in (MinPoints - 1)..(MinPoints + 2) :
          \E gaps \in SUBSET {2, 3, n - 1}, c \in 1..n, lo, hi \in SeriesValues :
              daily = StepSeries(n, gaps, c, lo, hi)
    /\ ts = <<>>
    /\ window = 1
    /\ ma = <<>>
    /\ forecast = NoForecast
    /\ IdleEnroll
    /\ IdleAnalysis
    /\ IdleDash
    /\ IdleApp
    /\ present = {}

NextForecast == plot_forecasting_series

SpecForecast == InitForecast /\ [][NextForecast]_vars

----------------------------------------------------------------------------
(* Claims about analyze_enrollment.py (SpecEnroll) *)

SumVals(series) == SumSeq([i \in 1..Len(series) |-> series[i].val])
GrandTotal(rows) == SumSeq([i \in 1..Len(rows) |-> Val(rows[i].total_enrollments)])
CountRows(rows, Test(_)) == Len(SelectSeq(rows, Test))

\* C2: conservation under grouping. Once main is done, the daily totals, the
\* state totals and the monthly per-bucket totals each add up to the sum of
\* total_enrollments over all retained rows, whatever their grouping keys.
C2_ConservationUnderGrouping ==
    pc = "done" =>
        /\ SumVals(report.daily_enrollments) = GrandTotal(df)
        /\ SumVals(StateTotals(df)) = GrandTotal(df)
        /\ SumSeq([i \in 1..Len(report.monthly) |-> SumSeq(report.monthly[i].val)])
              = GrandTotal(df)

OtherColumnsValid(r) ==
    /\ r.date.k = "ts" /\ r.district # NaN /\ r.pincode # NaN
    /\ \A i \in 1..Len(age_columns) : IsNum(r[age_columns[i]])

\* C6: a row whose state is missing is dropped by cleaning even when its
\* other columns are valid: no cleaned row has a missing state and every
\* other column valid.
C6_MissingStateDropped ==
    pc = "cleaned" =>
        \A i \in 1..Len(df) : ~(df[i].state = NaN /\ OtherColumnsValid(df[i]))

SomeBucketsFail(r) ==
    /\ \E i \in 1..Len(age_columns) : ~IsNum(r[age_columns[i]])
    /\ \E i \in 1..Len(age_columns) : IsNum(r[age_columns[i]])
AllBucketsFail(r) == \A i \in 1..Len(age_columns) : ~IsNum(r[age_columns[i]])
AllBucketsFailKeysPresent(r) ==
    AllBucketsFail(r) /\ r.state # NaN /\ r.district # NaN /\ r.pincode # NaN

\* C9: each bucket is coerced independently. A row with some but not all
\* buckets failing is kept (as many such rows after cleaning as before), and a
\* row with every bucket failing is dropped even when its state, district
\* and pincode are present (no such row after cleaning).
C9_BucketCoercion ==
    pc = "cleaned" =>
        /\ CountRows(df, SomeBucketsFail) = CountRows(csv, SomeBucketsFail)
        /\ CountRows(df, AllBucketsFailKeysPresent) = 0

BadDateRows == {i \in 1..Len(csv) : csv[i].date.k = "ymd"}

\* C10: a single bad row never aborts the batch. With exactly one row whose
\* date is not in the fixed format, among several rows, main does not end in
\* its error state.
C10_BadRowDoesNotAbort ==
    (Len(csv) > 1 /\ Cardinality(BadDateRows) = 1) => pc # "error"

\* The stages of main in the order of its body, and the message each prints
\* when it has run (the totals of lines 185-186 print nothing).
StageOrder == <<"start", "loaded", "cleaned", "sorted", "totalled", "analyzed", "done">>
StageIndex(p) == CHOOSE i \in 1..Len(StageOrder) : StageOrder[i] = p
StageMessages == <<"loaded", "cleaned", "sorted", "analyzed", "plotted", "complete">>
Banners(s) == Len(SelectSeq(s, LAMBDA m : m = "banner"))
IsPrefix(s, t) == Len(s) <= Len(t) /\ s = SubSeq(t, 1, Len(s))

C22_SortPermutation ==
    [][pc = "cleaned" /\ pc' = "sorted" =>
          /\ Len(df') = Len(df)
          /\ \E p \in Perms(Len(df)) : \A i \in 1..Len(df) : df'[i] = df[p[i]]
          /\ \A i, j \in 1..Len(df') :
                i < j /\ df'[i].date.k = "ts" /\ df'[j].date.k = "ts" =>
                    DateKey(df'[i].date) <= DateKey(df'[j].date)]_vars

\* Two records arrived latest first and were put in date order.
C22_Witness ==
    /\ pc = "sorted"
    /\ Len(csv) = 2 /\ Len(df) = 2
    /\ csv[1].date = DateText("dmy", 2023, 2, 7)
    /\ csv[2].date = DateText("dmy", 2023, 1, 5)
    /\ csv[1].state # csv[2].state
    /\ df[1].date = Timestamp(2023, 1, 5) /\ df[1].state = csv[2].state
    /\ df[2].date = Timestamp(2023, 2, 7) /\ df[2].state = csv[1].state

KeysOf(series) == {series[i].key : i \in 1..Len(series)}

\* A state left out of the list has the total of a state in it.
TieAtCutOff(all, chosen) ==
    \E g \in 1..Len(all), i \in 1..Len(chosen) :
        all[g].key \notin KeysOf(chosen) /\ all[g].val = chosen[i].val

\* C23: the two top-10 lists of analyze_enrollment.py, sort_values(descending)
\* .head(10) in analyze_enrollment and nlargest(10) in plot_enrollment_trends,
\* hold the same totals as many times each, and the same states when no state
\* left out ties with a state listed.
C23_SameTopTen ==
    pc = "done" =>
        LET head == report.state_totals
            largest == report.state_enrollments
        IN /\ Len(head) = Len(largest)
           /\ \A i \in 1..Len(head) : head[i].val = largest[Len(largest) + 1 - i].val
           /\ ~TieAtCutOff(StateTotals(df), head) => KeysOf(head) = KeysOf(largest)

\* Eleven states, the tenth and eleventh total equal: both lists hold ten
\* totals, and they differ in the state listed last.
C23_Witness ==
    /\ pc = "done"
    /\ Len(StateTotals(df)) = TopStates + 1
    /\ Len(report.state_totals) = TopStates
    /\ TieAtCutOff(StateTotals(df), report.state_totals)
    /\ KeysOf(report.state_totals) # KeysOf(report.state_enrollments)

RowsOf(rows) == {rows[i] : i \in 1..Len(rows)}

\* C24: every row of main's filtered dataset is a row of the loaded dataset
\* whose state and center type are among those selected. With two dates in
\* the date input its date lies in that closed range; with fewer than two
\* dates no row is left out for its date.
C24_FilteredRows ==
    sidebar # Defaults =>
        LET loaded == read_sample(sample)
            Selected(r) == /\ r.state \in sidebar.selected_states
                           /\ r.center_type \in sidebar.center_types
        IN /\ \A i \in 1..Len(fdf) :
                 /\ fdf[i] \in RowsOf(loaded)
                 /\ Selected(fdf[i])
                 /\ Len(sidebar.date_range) = 2 =>
                        /\ DateKey(sidebar.date_range[1]) <= DateKey(fdf[i].date)
                        /\ DateKey(fdf[i].date) <= DateKey(sidebar.date_range[2])
           /\ Len(sidebar.date_range) < 2 => fdf = SelectSeq(loaded, Selected)

\* One date in the date input: rows of two different days are kept, and a
\* row of the other center type is left out.
C24_Witness ==
    /\ Len(sidebar.date_range) = 1
    /\ sidebar.center_types = {"Permanent"}
    /\ Len(sample) = 2 /\ Len(fdf) = 1
    /\ sample[1].center_type = "Temporary"
    /\ DateKey(fdf[1].date) > DateKey(sidebar.date_range[1])

\* C13: ranking is deterministic under ties: of two states with the same
\* total, the one with the smaller key comes first in the ranked state totals.
C13_TiesByKeyAscending ==
    pc \in {"analyzed", "done"} =>
        \A i \in 1..(Len(report.state_totals) - 1) :
            report.state_totals[i].val = report.state_totals[i + 1].val =>
                StateRank[report.state_totals[i].key]
                    < StateRank[report.state_totals[i + 1].key]

\* str.strip() on a state cell
Trimmed(s) == IF s = PaddedState THEN "A" ELSE s

\* C17: cleaning trims string values, so rows whose state differs only by
\* leading or trailing whitespace fall into one group: no two groups of the
\* state totals have keys that are equal once trimmed.
C17_WhitespaceTrimmed ==
    pc \in {"analyzed", "done"} =>
        \A i, j \in 1..Len(report.state_totals) :
            Trimmed(report.state_totals[i].key) = Trimmed(report.state_totals[j].key)
                => i = j

\* C16: after cleaning no age-bucket count of a retained record is negative:
\* a negative raw value never reaches aggregation.
C16_CountsNonNegative ==
    pc \in {"cleaned", "sorted", "totalled", "analyzed", "done"} =>
        \A i \in 1..Len(df) : \A c \in 1..Len(age_columns) :
            IsNum(df[i][age_columns[c]]) => df[i][age_columns[c]].v >= 0

----------------------------------------------------------------------------
(* Claims about analysis.py (SpecAnalysis) *)

Abs(x) == IF x < 0 THEN -x ELSE x

\* C3: expected = P * 0.08, gap = expected - total, gap_ratio is gap / expected
\* to the nearest hundredth and enrollment_percentage is total / expected * 100
\* to the nearest tenth; P = 1000 and total = 60 give 80, 20, 0.25 (and 75.0).
C3_GapRatio ==
    apc = "computed" =>
        \A i \in 1..Len(adf) :
            LET r == adf[i]
                P == r.Population.v
                total == r.Enrolment.v
            IN /\ 100 * r.Expected_Children = P * 8 * 100
               /\ r.Enrolment_Gap + 100 * total = r.Expected_Children
               /\ r.Expected_Children > 0 =>
                    /\ IsNum(r.Gap_Ratio)
                    /\ 2 * Abs(r.Gap_Ratio.v * r.Expected_Children - 100 * r.Enrolment_Gap)
                          <= r.Expected_Children
                    /\ IsNum(r.Enrolment_Percentage)
                    /\ 2 * Abs(r.Enrolment_Percentage.v * r.Expected_Children
                               - 1000 * 100 * total) <= r.Expected_Children
               /\ (P = 1000 /\ total = 60) =>
                    /\ r.Expected_Children = 8000
                    /\ r.Enrolment_Gap = 2000
                    /\ r.Gap_Ratio = Num(25)
                    /\ r.Enrolment_Percentage = Num(750)

\* The spec's example, and a ratio that needs rounding (75 -> 6.00 expected,
\* 1 enrolled: 5/6 = 0.83, 16.7 %).
C3_Witness ==
    /\ apc = "computed"
    /\ \E i \in 1..Len(adf) :
          /\ adf[i].Population = Num(1000) /\ adf[i].Enrolment = Num(60)
          /\ adf[i].Gap_Ratio = Num(25)
    /\ \E i \in 1..Len(adf) :
          /\ adf[i].Expected_Children > 0
          /\ (100 * adf[i].Enrolment_Gap) % adf[i].Expected_Children # 0

\* The float64 cells of a row add up as the reals do.
GapPlusEnrolmentExact(r) ==
    DoubleAdd(r.Enrolment_Gap, IntFloat(r.Enrolment.v)) = r.Expected_Children

\* |f| <= 2^h, f in canonical form
AtMostPowerOfTwo(f, h) ==
    \/ f.m = <<>>
    \/ f.e + Len(f.m) - 1 < h
    \/ f.m = <<1>> /\ f.e = h

\* Enrolment_Gap + Enrolment, added without rounding, is within half a unit
\* in the last place of Enrolment_Gap of Expected_Children.
GapPlusEnrolmentRounded(r) ==
    LET sum == ExactSum(r.Enrolment_Gap, IntFloat(r.Enrolment.v))
        diff == Canonical(ExactSum(sum, [r.Expected_Children EXCEPT !.sign = -1]))
        gap == r.Enrolment_Gap
    IN AtMostPowerOfTwo(diff, gap.e + Len(gap.m) - 1 - MantissaBits)

\* Gap_Ratio * 100 + Enrolment_Percentage is within 0.55 of 100.
RoundedComplementary(r) ==
    /\ IsNum(r.Gap_Ratio) /\ IsNum(r.Enrolment_Percentage)
    /\ 10 * Abs(10 * r.Gap_Ratio.v + r.Enrolment_Percentage.v - 1000) <= 55

C4_ZeroExpectedUndefined ==
    apc = "computed" =>
        \A i \in 1..Len(adf) :
            adf[i].Expected_Children = 0 =>
                /\ adf[i].Gap_Ratio = NaNCell
                /\ adf[i].Enrolment_Percentage = NaNCell

StateRows(s) == SelectSeq(adf, LAMBDA r : r.State = s)

\* C11: a state's gap_ratio is computed from the state's sums: for every state
\* whose records all have a positive expected value, the charted gap ratio is
\* (sum expected - sum total) / sum expected to the nearest hundredth.
C11_GroupRatioFromSums ==
    apc = "charted" =>
        \A i \in 1..Len(acharts.state_gap) :
            LET g == acharts.state_gap[i]
                rows == StateRows(g.key)
                X == SumSeq(Column(rows, "Expected_Children"))
                G == SumSeq(Column(rows, "Enrolment_Gap"))
            IN (\A j \in 1..Len(rows) : rows[j].Expected_Children > 0) =>
                  /\ g.val.k = "num"
                  /\ 2 * Abs(g.val.v * X - 100 * G * g.val.n) <= g.val.n * X

\* C12: a state none of whose records has a population still appears in the
\* output: every state with a complete row but for its missing Population is
\* a state of the processed frame.
C12_NoBaselineGroupKept ==
    apc \in {"computed", "charted"} =>
        \A s \in States :
            (/\ \E i \in 1..Len(acsv) : acsv[i]["State Name"] = s
             /\ \A i \in 1..Len(acsv) :
                   acsv[i]["State Name"] = s =>
                       /\ acsv[i]["Population"] = NaNCell
                       /\ IsNum(acsv[i]["Enrolment Count"]))
            => \E i \in 1..Len(adf) : adf[i].State = s

----------------------------------------------------------------------------
(* Claims about generate_data.py and dashboard.py (SpecDash, SpecRank) *)

\* C1: the per-age-bucket totals add up to the total, also on the generated
\* sample data: the three sums plot_demographics charts add up to the sum of
\* total_enrollments, and so do the three columns of every row.
C1_BucketsSumToTotal ==
    "demographics" \in runs.ran =>
        /\ SumSeq(last.demographics.age) = IntColumnSum(fdf, "total_enrollments")
        /\ \A i \in 1..Len(fdf) :
              fdf[i].child_enrollments + fdf[i].adult_enrollments
                  + fdf[i].senior_enrollments = fdf[i].total_enrollments

Min(a, b) == IF a <= b THEN a ELSE b

RankedKeys == {last.ranked.rows[i].key : i \in 1..Len(last.ranked.rows)}

\* C5: top-N by total returns exactly min(n, number of groups) of the groups,
\* in non-increasing order of total, each at least as large as every group
\* left out; n above the number of groups returns them all.
C5_TopN ==
    "ranked" \in runs.ran =>
        LET groups == TotalsBy(fdf, "state", DashStateRank)
            rows == last.ranked.rows
        IN /\ Len(rows) = Min(last.ranked.n, Len(groups))
           /\ \A i \in 1..Len(rows) : \E g \in 1..Len(groups) : groups[g] = rows[i]
           /\ \A i, j \in 1..Len(rows) : i < j => rows[i].key # rows[j].key
           /\ \A i \in 1..(Len(rows) - 1) : rows[i].val >= rows[i + 1].val
           /\ \A g \in 1..Len(groups) :
                 groups[g].key \notin RankedKeys =>
                     \A i \in 1..Len(rows) : rows[i].val >= groups[g].val

\* Three groups with different totals, the top two asked for.
C5_Witness ==
    /\ "ranked" \in runs.ran
    /\ last.ranked.n = 2
    /\ Len(last.ranked.rows) = 2
    /\ Len(TotalsBy(fdf, "state", DashStateRank)) = 3
    /\ last.ranked.rows[1].val > last.ranked.rows[2].val
    /\ fdf[1].total_enrollments < fdf[Len(fdf)].total_enrollments

\* C8: idempotence. An aggregation that has run before (daily totals, monthly
\* totals, seasonal monthly averages, state totals) gives the same result
\* when it runs again on the same dataset, whatever ran in between.
C8_Idempotent ==
    [][\A k \in {"daily", "monthly", "seasonal", "state_totals"} :
          k \in runs.ran => last'[k] = last[k]]_vars

\* Every aggregation has run, one of them twice, and the month column that
\* plot_time_series and plot_seasonal_patterns share holds the latter's.
C8_Witness ==
    /\ runs.again
    /\ {"daily", "monthly", "seasonal", "state_totals", "insights"} \subseteq runs.ran
    /\ last.monthly # <<>>
    /\ \A i \in 1..Len(fdf) : fdf[i].month.k = "int"

\* C18: the aggregation and chart functions do not modify the dataset they
\* are given: after any sequence of calls the dataset has the columns and the
\* values it was loaded with.
C18_DatasetUnmodified ==
    dpc = "loaded" => fdf = read_sample(sample)

----------------------------------------------------------------------------
(* Claims about app.py's load_data and page (SpecApp) *)

\* C14: a column absent from the input makes the call fail and is never
\* replaced by a default: a dataset load_data read from the file has no column
\* the file does not have.
C14_AbsentColumnFailsFast ==
    appdf.src = "file" => appdf.columns \subseteq appfile

\* C20: whenever load_data returns a dataset, from the file or generated, it
\* has every column the page's sections read, and no section ends in a
\* missing-column failure.
C20_LoadedHasChartColumns ==
    apppc # "start" =>
        /\ ChartColumns \subseteq appdf.columns
        /\ apppc # "KeyError"

----------------------------------------------------------------------------
(* Claims about every script's input (SpecScripts) *)

EnrollHalted ==
    /\ pc \in {"start", "error"}
    /\ pc = "error" => printed = <<"banner">>
    /\ pc = "start" => printed = <<>>
    /\ df = <<>> /\ report = NoReport

AnalysisHalted ==
    /\ apc \in {"start", "notfound"}
    /\ adf = <<>> /\ acharts = NoCharts

DashHalted == fdf = <<>> /\ last = NoLast /\ runs = NoRuns

----------------------------------------------------------------------------
(* Claims about app.py (SpecRoll) *)

Max(a, b) == IF a >= b THEN a ELSE b

WindowSum(s, lo, hi) == SumSeq(SubSeq(s, lo, hi))

\* The value of day i of the series once its gaps are filled: the value of
\* the latest day up to i that has a record.
FilledAt(i) ==
    daily[CHOOSE j \in 1..i : IsNum(daily[j]) /\ \A k \in (j + 1)..i : ~IsNum(daily[k])].v

SameRatio(a, b) == a.sum * b.nobs = b.sum * a.nobs

\* C25: plot_forecasting plots a forecast only for a daily series with at
\* least 30 distinct dates, and warns without plotting otherwise. The
\* forecast has 30 points, on the 30 days after the last observed date, each
\* the mean of the last 30 days of the gap-filled series; the band is 0.9 and
\* 1.1 times that mean.
C25_Forecast ==
    forecast # NoForecast =>
        LET n == Len(daily)
            last30 == [sum |-> SumSeq([i \in 1..30 |-> FilledAt(n - 30 + i)]), nobs |-> 30]
        IN /\ forecast.kind = "plotted" <=> Points(daily) >= 30
           /\ forecast.kind # "plotted" =>
                  forecast.kind = "warning" /\ forecast.values = <<>>
           /\ forecast.kind = "plotted" =>
                  /\ Len(forecast.values) = 30
                  /\ forecast.dates = [i \in 1..30 |-> n + i]
                  /\ \A i \in 1..30 : SameRatio(forecast.values[i], last30)
                  /\ \A i \in 1..Len(forecast.lower) :
                        SameRatio(forecast.lower[i], [sum |-> 9 * last30.sum, nobs |-> 300])
                  /\ \A i \in 1..Len(forecast.upper) :
                        SameRatio(forecast.upper[i], [sum |-> 11 * last30.sum, nobs |-> 300])

\* 32 days of which the second and the last but one have no record: 30 days
\* with a record, and the filled value of the gap differs from the last value.
C25_Witness ==
    /\ forecast.kind = "plotted"
    /\ Len(daily) = 32 /\ Points(daily) = 30
    /\ daily[31] = NaNCell
    /\ daily[30].v < daily[32].v
    /\ ts[31] = daily[30].v

\* C19: before the rolling average is applied, every missing day of the daily
\* series is filled with zero, not with a neighbouring day's value.
C19_GapsZeroFilled ==
    ts # <<>> => \A i \in 1..Len(daily) : daily[i] = NaNCell => ts[i] = 0

\* C7: rolling mean with min_periods = 1. The output is as long as the
\* series and output[i] is the mean of s[max(1, i-w+1) .. i] (1-based);
\* [10, 20, 30] with w = 2 gives [10, 15, 25].
C7_RollingMean ==
    ma # <<>> =>
        /\ Len(ma) = Len(ts)
        /\ \A i \in 1..Len(ts) :
              LET lo == Max(1, i - window + 1)
              IN /\ ma[i].nobs = i - lo + 1
                 /\ ma[i].sum = WindowSum(ts, lo, i)
        /\ (ts = <<10, 20, 30>> /\ window = 2) =>
              /\ ma[1].sum = 10 * ma[1].nobs
              /\ ma[2].sum = 15 * ma[2].nobs
              /\ ma[3].sum = 25 * ma[3].nobs

\* The spec's example: a window shorter than the series, so values leave it.
C7_Witness ==
    /\ ts = <<10, 20, 30>> /\ window = 2
    /\ ma = <<[sum |-> 10, nobs |-> 1], [sum |-> 30, nobs |-> 2], [sum |-> 50, nobs |-> 2]>>

====
